---- MODULE Spec2Model ----
(***************************************************************************)
(* A model of KMCLib's LatticeMap (c++/src/latticemap.cpp): the mapping    *)
(* between flat site indices and cells of a three-dimensional lattice, the *)
(* neighbour enumeration and the file-static scratch vector                *)
(* tmp_cell_indices__ that every LatticeMap of the process shares.         *)
(*                                                                         *)
(* C++ vectors are 0-based, TLA+ sequences 1-based: repetitions_[a] is     *)
(* m.repetitions[a + 1], tmp_cell_indices__[l] is tmp_cell_indices__[l+1]. *)
(***************************************************************************)
EXTENDS Integers, Sequences, FiniteSets, TLC

\* ------------------------------------------------------------------------
\* Bounds of the model.
MaxBasis == 2
MaxRep == 2
MaxShells == 2
MaxMaps == 2

Threads == {1, 2}

VARIABLES
    maps,                \* the LatticeMap objects constructed so far
    tmp_cell_indices__,  \* the static std::vector<int> of latticemap.cpp:35
    call,                \* the last completed call: operation, arguments, outcome
    thr                  \* per thread: the position inside a running query

vars == <<maps, tmp_cell_indices__, call, thr>>

\* ------------------------------------------------------------------------
\* Helpers for C++ semantics.

\* int / int of C++: truncation toward zero (b > 0).
TruncDiv(a, b) == IF a >= 0 THEN a \div b ELSE -((-a) \div b)

\* n value-initialised ints (as a tuple).
Zeros(n) == <<>> \o [x \in 1..n |-> 0]

\* std::vector<int>::resize(n), 0 <= n: truncate, or pad with zeros.
Resize(v, n) == <<>> \o [x \in 1..n |-> IF x <= Len(v) THEN v[x] ELSE 0]

\* ------------------------------------------------------------------------
\* The object the constructor's initialiser list builds.
LatticeMap(n_basis, repetitions, periodic) ==
    [n_basis |-> n_basis, repetitions |-> repetitions, periodic |-> periodic]

\* The configurations section 4.1 of the design allows.
ValidConfig(n_basis, repetitions, periodic) ==
    /\ n_basis > 0
    /\ Len(repetitions) = 3
    /\ Len(periodic) = 3
    /\ \A a \in 1..Len(repetitions) : repetitions[a] > 0

TotalSites(m) ==
    m.repetitions[1] * m.repetitions[2] * m.repetitions[3] * m.n_basis

\* ------------------------------------------------------------------------
\* LatticeMap::indexToCell.

\* while (cmp < idx) { ++cell; cmp += factor; }
RECURSIVE WhileCmp(_, _, _, _)
WhileCmp(cell, cmp, factor, idx) ==
    IF cmp < idx THEN WhileCmp(cell + 1, cmp + factor, factor, idx) ELSE cell

\* while (cell_k < idx_k) { ++cell_k; }
RECURSIVE WhileK(_, _)
WhileK(cell_k, idx_k) ==
    IF cell_k < idx_k THEN WhileK(cell_k + 1, idx_k) ELSE cell_k

\* indexToCell without the "+ 1" of its first line.
IndexToCellNoCarry(m, index) ==
    LET idx == TruncDiv(index, m.n_basis)
        factor_i == m.repetitions[2] * m.repetitions[3]
        cell_i == WhileCmp(0, factor_i, factor_i, idx)
        ci == cell_i * factor_i
        factor_j == m.repetitions[3]
        idx_j == idx - ci
        cell_j == WhileCmp(0, factor_j, factor_j, idx_j)
        cij == ci + cell_j * factor_j
        idx_k == idx - cij
        cell_k == WhileK(1, idx_k) - 1
    IN  <<cell_i, cell_j, cell_k>>

IndexToCell(m, index) ==
    LET idx == TruncDiv(index, m.n_basis) + 1
        factor_i == m.repetitions[2] * m.repetitions[3]
        cell_i == WhileCmp(0, factor_i, factor_i, idx)
        ci == cell_i * factor_i
        factor_j == m.repetitions[3]
        idx_j == idx - ci
        cell_j == WhileCmp(0, factor_j, factor_j, idx_j)
        cij == ci + cell_j * factor_j
        idx_k == idx - cij
        cell_k == WhileK(1, idx_k) - 1
    IN  <<cell_i, cell_j, cell_k>>

\* ------------------------------------------------------------------------
\* LatticeMap::indicesFromCell.

\* tmp1 computed with repetitions_[0] in the place of repetitions_[1].
CellBaseWrongAxis(m, i, j, k) ==
    LET tmp1 == i * m.repetitions[1] + j
        tmp2 == tmp1 * m.repetitions[3] + k
    IN  tmp2 * m.n_basis

\* tmp3: the flat index of the first site of cell (i,j,k).
CellBase(m, i, j, k) ==
    LET tmp1 == i * m.repetitions[2] + j
        tmp2 == tmp1 * m.repetitions[3] + k
    IN  tmp2 * m.n_basis

\* for (l = 0; l < n_basis_; ++l) tmp_cell_indices__[l] = tmp3 + l;
\* on a vector that holds at least n_basis_ elements.
RECURSIVE FillLoop(_, _, _, _)
FillLoop(buf, l, n_basis, tmp3) ==
    IF l < n_basis
    THEN FillLoop([buf EXCEPT ![l + 1] = tmp3 + l], l + 1, n_basis, tmp3)
    ELSE buf

IndicesFromCell(m, buf, i, j, k) == FillLoop(buf, 0, m.n_basis, CellBase(m, i, j, k))

\* ------------------------------------------------------------------------
\* LatticeMap::neighbourIndices.

\* The periodicity handling of one axis (a = 1, 2, 3): one repetition count
\* is added to a negative coordinate, or subtracted from one that is too
\* large; a non-periodic axis leaves the coordinate alone.
WrapOnce(m, a, x) ==
    IF m.periodic[a]
    THEN IF x < 0 THEN x + m.repetitions[a]
         ELSE IF x >= m.repetitions[a] THEN x - m.repetitions[a]
         ELSE x
    ELSE x

\* The bounds test with <= in the place of <.
InBoundsInclusive(m, a, x) == x >= 0 /\ x <= m.repetitions[a]

\* "Go on only if ... is within bounds."
InBounds(m, a, x) == x >= 0 /\ x < m.repetitions[a]

\* The three nested loops: the cells (ii,jj,kk) for which the innermost
\* body runs, in the order in which it runs.
RECURSIVE LoopK(_, _, _, _, _)
LoopK(m, ii, jj, k, k_end) ==
    IF k > k_end THEN <<>>
    ELSE LET kk == WrapOnce(m, 3, k)
         IN  (IF InBounds(m, 3, kk) THEN << <<ii, jj, kk>> >> ELSE <<>>)
                 \o LoopK(m, ii, jj, k + 1, k_end)

RECURSIVE LoopJ(_, _, _, _, _)
LoopJ(m, cell, shells, ii, j) ==
    IF j > cell[2] + shells THEN <<>>
    ELSE LET jj == WrapOnce(m, 2, j)
         IN  (IF InBounds(m, 2, jj)
              THEN LoopK(m, ii, jj, cell[3] - shells, cell[3] + shells)
              ELSE <<>>)
                 \o LoopJ(m, cell, shells, ii, j + 1)

RECURSIVE LoopI(_, _, _, _)
LoopI(m, cell, shells, i) ==
    IF i > cell[1] + shells THEN <<>>
    ELSE LET ii == WrapOnce(m, 1, i)
         IN  (IF InBounds(m, 1, ii)
              THEN LoopJ(m, cell, shells, ii, cell[2] - shells)
              ELSE <<>>)
                 \o LoopI(m, cell, shells, i + 1)

VisitedCells(m, index, shells) ==
    LET cell == IndexToCell(m, index)
    IN  LoopI(m, cell, shells, cell[1] - shells)

\* std::pow((2*shells + 1), 3) * n_basis_
NNeighbours(m, shells) ==
    (2 * shells + 1) * (2 * shells + 1) * (2 * shells + 1) * m.n_basis

\* The innermost body, for every visited cell in turn: indicesFromCell
\* fills the scratch vector, memcpy copies n_basis_ ints from its start
\* behind what neighbours holds so far.  A fill starts from the vector as
\* the last fill left it, that is from buf with its first n_basis_ elements
\* overwritten, and overwrites these again.  The result is
\* [out |-> neighbours[0..counter), buf |-> the scratch vector at the end].
CopyCells(m, cells, buf) ==
    LET Filled(n) ==
            IndicesFromCell(m, buf, cells[n][1], cells[n][2], cells[n][3])
        blocks == [n \in 1..Len(cells) |-> SubSeq(Filled(n), 1, m.n_basis)]
    IN  [out |-> [x \in 1..(Len(cells) * m.n_basis) |->
                    blocks[((x - 1) \div m.n_basis) + 1][((x - 1) % m.n_basis) + 1]],
         buf |-> IF cells = <<>> THEN buf ELSE Filled(Len(cells))]

NeighbourIndices(m, buf, index, shells) ==
    CopyCells(m, VisitedCells(m, index, shells), buf)

\* ------------------------------------------------------------------------
\* LatticeMap::supersetNeighbourIndices.

\* std::sort on ints: the ascending rearrangement of s, built value by
\* value: every value of lo..hi as often as s holds it.
RECURSIVE SortRange(_, _, _)
SortRange(s, lo, hi) ==
    IF lo > hi THEN <<>>
    ELSE IF lo = hi
    THEN [x \in 1..Cardinality({p \in DOMAIN s : s[p] = lo}) |-> lo]
    ELSE LET mid == (lo + hi) \div 2
         IN  SortRange(s, lo, mid) \o SortRange(s, mid + 1, hi)

Sort(s) ==
    IF s = <<>> THEN s
    ELSE LET vals == {s[p] : p \in DOMAIN s}
             lo == CHOOSE v \in vals : \A u \in vals : v <= u
             hi == CHOOSE v \in vals : \A u \in vals : u <= v
         IN  SortRange(s, lo, hi)

\* std::unique and the resize to its result: of every run of equal
\* adjacent elements of s[lo..hi] the first is kept, in order.
RECURSIVE UniqueRange(_, _, _)
UniqueRange(s, lo, hi) ==
    IF lo > hi THEN <<>>
    ELSE IF lo = hi
    THEN IF lo = 1 \/ s[lo] # s[lo - 1] THEN <<s[lo]>> ELSE <<>>
    ELSE LET mid == (lo + hi) \div 2
         IN  UniqueRange(s, lo, mid) \o UniqueRange(s, mid + 1, hi)

\* The superset without the std::unique step.
UniqueKeepAll(s) == s

Unique(s) == UniqueRange(s, 1, Len(s))

\* The loop over the input: every neighbour list (shells has its default
\* value 1) is pushed behind the superset.
RECURSIVE SupersetLoop(_, _, _)
SupersetLoop(m, indices, st) ==
    IF indices = <<>> THEN st
    ELSE LET r == NeighbourIndices(m, st.buf, Head(indices), 1)
         IN  SupersetLoop(m, Tail(indices),
                          [out |-> st.out \o r.out, buf |-> r.buf])

SupersetNeighbourIndices(m, buf, indices) ==
    LET st == SupersetLoop(m, indices, [out |-> <<>>, buf |-> buf])
    IN  [out |-> Unique(Sort(st.out)), buf |-> st.buf]

\* ------------------------------------------------------------------------
\* Calls made one at a time.  call records the last one: the operation, the
\* map it ran on (its position in maps), its integer arguments, for a
\* construction its periodicity flags, how it ended and what it returned.
\*   status "ok"            the call returned
\*          "length_error"  it left with std::length_error
\*          "bad_alloc"     it left with std::bad_alloc
\*          "ub"            it wrote or read behind the scratch vector's end
\*                          and went on with what it found there
\*          "crash"         the same access ended the process
\* (A value used more than once is bound by \E x \in {e}, which evaluates e
\* once.)

NoThread == [pc |-> "idle", op |-> "none", arg |-> <<>>, cells |-> <<>>,
             l |-> 0, acc |-> <<>>, out |-> <<>>]

Record(op, q, arg, flags, status, out) ==
    [op |-> op, m |-> q, arg |-> arg, flags |-> flags, status |-> status,
     out |-> out]

NoCall == Record("none", 0, <<>>, <<>>, "none", <<>>)

Booleans3 == {<<p0, p1, p2>> : p0 \in BOOLEAN, p1 \in BOOLEAN, p2 \in BOOLEAN}

Repetitions3 == {<<ra, rb, rc>> : ra \in 1..MaxRep, rb \in 1..MaxRep, rc \in 1..MaxRep}

\* The maps whose configuration the queries are defined for.
Queryable ==
    {q \in 1..Len(maps) :
        ValidConfig(maps[q].n_basis, maps[q].repetitions, maps[q].periodic)}

\* A caller makes its next call once it has taken the result of the last
\* one; nothing runs after a crash.
Ready == call.op \in {"none", "construct"} /\ call.status # "crash"

\* The caller takes the result.
Return ==
    /\ call.op \notin {"none", "construct"}
    /\ call.status # "crash"
    /\ call' = NoCall
    /\ UNCHANGED <<maps, tmp_cell_indices__, thr>>

\* The memory a fill writes: the vector's elements and, where the vector is
\* shorter than n_basis_, the ints that lie behind them.
Scratch(m) ==
    IF Len(tmp_cell_indices__) >= m.n_basis
    THEN tmp_cell_indices__
    ELSE Resize(tmp_cell_indices__, m.n_basis)

\* What is left in the vector itself.
Kept(buf) == SubSeq(buf, 1, Len(tmp_cell_indices__))

\* How a query that uses the scratch vector ends: normally when the vector
\* is long enough; otherwise the access behind its end is undefined, and
\* the call either goes on with the memory it finds there or the process
\* ends.
ScratchOutcome(m, buf, flat, arg, op, q) ==
    IF Len(tmp_cell_indices__) >= m.n_basis
    THEN /\ tmp_cell_indices__' = buf
         /\ call' = Record(op, q, arg, <<>>, "ok", flat)
    ELSE \E o \in {"ub", "crash"} :
            /\ tmp_cell_indices__' = Kept(buf)
            /\ call' = Record(op, q, arg, <<>>, o,
                              IF o = "ub" THEN flat ELSE <<>>)

\* LatticeMap::LatticeMap
Construct(n_basis, repetitions, periodic) ==
    /\ Ready
    /\ Len(maps) < MaxMaps
    /\ IF n_basis < 0
       THEN \* resize() to a size above max_size()
            /\ call' = Record("construct", 0, <<n_basis>> \o repetitions,
                              periodic, "length_error", <<>>)
            /\ UNCHANGED <<maps, tmp_cell_indices__>>
       ELSE /\ maps' = Append(maps, LatticeMap(n_basis, repetitions, periodic))
            /\ tmp_cell_indices__' = Resize(tmp_cell_indices__, n_basis)
            /\ call' = Record("construct", Len(maps) + 1,
                              <<n_basis>> \o repetitions, periodic, "ok", <<>>)
    /\ UNCHANGED thr

\* LatticeMap::indexToCell
IndexToCellCall(q, index) ==
    /\ Ready
    /\ call' = Record("indexToCell", q, <<index>>, <<>>, "ok",
                      IndexToCell(maps[q], index))
    /\ UNCHANGED <<maps, tmp_cell_indices__, thr>>

\* LatticeMap::indicesFromCell; the caller gets a reference to the scratch
\* vector, out is what it reads through it when the call returns.
IndicesFromCellCall(q, i, j, k) ==
    /\ Ready
    /\ \E buf \in {IndicesFromCell(maps[q], Scratch(maps[q]), i, j, k)} :
          ScratchOutcome(maps[q], buf, Kept(buf), <<i, j, k>>,
                         "indicesFromCell", q)
    /\ UNCHANGED <<maps, thr>>

\* LatticeMap::neighbourIndices
NeighbourIndicesCall(q, index, shells) ==
    /\ Ready
    /\ IF NNeighbours(maps[q], shells) < 0
       THEN \* std::vector<int> neighbours(n_neighbours) of a size above
            \* max_size(): the constructor throws
            /\ \E e \in {"length_error", "bad_alloc"} :
                  call' = Record("neighbourIndices", q, <<index, shells>>,
                                 <<>>, e, <<>>)
            /\ UNCHANGED tmp_cell_indices__
       ELSE \E st \in {NeighbourIndices(maps[q], Scratch(maps[q]), index, shells)} :
               ScratchOutcome(maps[q], st.buf, st.out, <<index, shells>>,
                              "neighbourIndices", q)
    /\ UNCHANGED <<maps, thr>>

\* LatticeMap::supersetNeighbourIndices
SupersetNeighbourIndicesCall(q, indices) ==
    /\ Ready
    /\ \E st \in {SupersetNeighbourIndices(maps[q], Scratch(maps[q]), indices)} :
          ScratchOutcome(maps[q], st.buf, st.out, indices,
                         "supersetNeighbourIndices", q)
    /\ UNCHANGED <<maps, thr>>

\* ------------------------------------------------------------------------
\* The arguments the calls are tried with.

ValidIndices(m) == 0..(TotalSites(m) - 1)

\* Every valid index, and one on either side.
IndexArgs(m) == -1..TotalSites(m)

ValidCoords(m, a) == 0..(m.repetitions[a] - 1)

\* Every coordinate of an axis, and one on either side.
CoordArgs(m, a) == -1..m.repetitions[a]

ValidShells == 0..MaxShells

\* Every shell radius up to MaxShells, and a negative one.
ShellArgs == -1..MaxShells

\* Index lists: the empty one, every single index, and every two indices
\* in either order, the same index twice included.
IndexLists(m) ==
    {<<>>} \cup {<<a>> : a \in ValidIndices(m)}
           \cup {<<a, b>> : a \in ValidIndices(m), b \in ValidIndices(m)}

\* ------------------------------------------------------------------------
\* Spec: one map, built from a valid configuration, and one caller that
\* keeps to the preconditions of the queries.

Init ==
    /\ \E n_basis \in 1..MaxBasis, repetitions \in Repetitions3,
          periodic \in Booleans3 :
          /\ maps = <<LatticeMap(n_basis, repetitions, periodic)>>
          /\ tmp_cell_indices__ = Resize(<<>>, n_basis)
          /\ call = Record("construct", 1, <<n_basis>> \o repetitions,
                           periodic, "ok", <<>>)
    /\ thr = [t \in Threads |-> NoThread]

DoIndexToCell ==
    \E q \in Queryable : \E index \in ValidIndices(maps[q]) :
        IndexToCellCall(q, index)

DoIndicesFromCell ==
    \E q \in Queryable :
        \E i \in ValidCoords(maps[q], 1), j \in ValidCoords(maps[q], 2),
           k \in ValidCoords(maps[q], 3) :
            IndicesFromCellCall(q, i, j, k)

DoNeighbourIndices ==
    \E q \in Queryable : \E index \in ValidIndices(maps[q]), shells \in ValidShells :
        NeighbourIndicesCall(q, index, shells)

DoSupersetNeighbourIndices ==
    \E q \in Queryable : \E indices \in IndexLists(maps[q]) :
        SupersetNeighbourIndicesCall(q, indices)

Next ==
    \/ DoIndexToCell
    \/ DoIndicesFromCell
    \/ DoNeighbourIndices
    \/ DoSupersetNeighbourIndices
    \/ Return

Spec == Init /\ [][Next]_vars

\* ------------------------------------------------------------------------
\* SpecUnchecked: the same map and caller, with arguments on either side of
\* the preconditions as well.

TryIndexToCell ==
    \E q \in Queryable : \E index \in IndexArgs(maps[q]) :
        IndexToCellCall(q, index)

TryIndicesFromCell ==
    \E q \in Queryable :
        \E i \in CoordArgs(maps[q], 1), j \in CoordArgs(maps[q], 2),
           k \in CoordArgs(maps[q], 3) :
            IndicesFromCellCall(q, i, j, k)

TryNeighbourIndices ==
    \E q \in Queryable : \E index \in ValidIndices(maps[q]), shells \in ShellArgs :
        NeighbourIndicesCall(q, index, shells)

NextUnchecked ==
    \/ TryIndexToCell
    \/ TryIndicesFromCell
    \/ TryNeighbourIndices
    \/ Return

SpecUnchecked == Init /\ [][NextUnchecked]_vars

\* ------------------------------------------------------------------------
\* SpecConstruct: a process that builds up to MaxMaps maps, from any
\* arguments, and queries those of them that have a valid configuration.

BasisArgs == -1..MaxBasis

RepetitionArgs == {<<1, 1, MaxRep>>, <<1, 0, 1>>, <<1, 1>>}

PeriodicArgs == {<<FALSE, FALSE, FALSE>>, <<TRUE, TRUE, TRUE>>, <<TRUE, FALSE>>}

InitConstruct ==
    /\ maps = <<>>
    /\ tmp_cell_indices__ = <<>>
    /\ call = NoCall
    /\ thr = [t \in Threads |-> NoThread]

DoConstruct ==
    \E n_basis \in BasisArgs, repetitions \in RepetitionArgs,
       periodic \in PeriodicArgs :
        Construct(n_basis, repetitions, periodic)

NextConstruct ==
    \/ DoConstruct
    \/ DoIndicesFromCell
    \/ DoNeighbourIndices
    \/ Return

SpecConstruct == InitConstruct /\ [][NextConstruct]_vars

\* ------------------------------------------------------------------------
\* SpecConc: the threads of Threads query one map at the same time.  A
\* thread runs the same code as above, one access to the scratch vector per
\* step: a fill writes one int, the memcpy (or the caller of
\* indicesFromCell, through the reference it was given) reads one int.  The
\* accesses are not synchronised; of what the race may do the model takes
\* the interleavings of these accesses.
\*   pc "idle"  outside any call
\*      "fill"  inside indicesFromCell, l elements written for Head(cells)
\*      "copy"  inside memcpy, l elements copied
\*      "hold"  indicesFromCell has returned its reference
\*      "done"  neighbourIndices or supersetNeighbourIndices has returned out

ConcMap == LatticeMap(MaxBasis, <<1, 1, MaxRep>>, <<FALSE, FALSE, FALSE>>)

ConcShells == {0, 1}

\* The index lists of the concurrent callers: none, and the first index
\* alone and with the last.
ConcLists == {<<>>, <<0>>, <<TotalSites(ConcMap) - 1, 0>>}

InitConc ==
    /\ maps = <<ConcMap>>
    /\ tmp_cell_indices__ = Resize(<<>>, ConcMap.n_basis)
    /\ call = Record("construct", 1, <<ConcMap.n_basis>> \o ConcMap.repetitions,
                     ConcMap.periodic, "ok", <<>>)
    /\ thr = [t \in Threads |-> NoThread]

\* The cells supersetNeighbourIndices has filled and copied, one
\* neighbourIndices(index) after the other.
RECURSIVE AllVisited(_, _)
AllVisited(m, indices) ==
    IF indices = <<>> THEN <<>>
    ELSE VisitedCells(m, Head(indices), 1) \o AllVisited(m, Tail(indices))

Enter(t, op, arg, cells) ==
    /\ thr[t].pc = "idle"
    /\ thr' = [thr EXCEPT ![t] =
                  [pc |-> IF cells = <<>> THEN "done" ELSE "fill", op |-> op,
                   arg |-> arg, cells |-> cells, l |-> 0, acc |-> <<>>,
                   out |-> <<>>]]
    /\ UNCHANGED <<maps, tmp_cell_indices__, call>>

BeginIndicesFromCell(t) ==
    \E i \in ValidCoords(maps[1], 1), j \in ValidCoords(maps[1], 2),
       k \in ValidCoords(maps[1], 3) :
        Enter(t, "indicesFromCell", <<i, j, k>>, << <<i, j, k>> >>)

BeginNeighbourIndices(t) ==
    \E index \in ValidIndices(maps[1]), shells \in ConcShells :
        Enter(t, "neighbourIndices", <<index, shells>>,
              VisitedCells(maps[1], index, shells))

BeginSupersetNeighbourIndices(t) ==
    \E indices \in ConcLists :
        Enter(t, "supersetNeighbourIndices", indices, AllVisited(maps[1], indices))

\* tmp_cell_indices__[l] = tmp3 + l; after the last one indicesFromCell
\* returns, to its caller or to neighbourIndices.
FillStep(t) ==
    /\ thr[t].pc = "fill"
    /\ LET c == Head(thr[t].cells)
           l == thr[t].l
           last == l + 1 = maps[1].n_basis
       IN  /\ tmp_cell_indices__' =
                 [tmp_cell_indices__ EXCEPT
                     ![l + 1] = CellBase(maps[1], c[1], c[2], c[3]) + l]
           /\ thr' = [thr EXCEPT
                 ![t].l = IF last THEN 0 ELSE l + 1,
                 ![t].pc = IF ~last THEN "fill"
                           ELSE IF thr[t].op = "indicesFromCell" THEN "hold"
                           ELSE "copy"]
    /\ UNCHANGED <<maps, call>>

\* memcpy, one int at a time; after the last int of the last cell the list
\* is returned, by supersetNeighbourIndices sorted and without repeats.
CopyStep(t) ==
    /\ thr[t].pc = "copy"
    /\ LET l == thr[t].l
           acc == Append(thr[t].acc, tmp_cell_indices__[l + 1])
           last == l + 1 = maps[1].n_basis
           rest == Tail(thr[t].cells)
       IN  thr' = [thr EXCEPT
               ![t].acc = acc,
               ![t].l = IF last THEN 0 ELSE l + 1,
               ![t].cells = IF last THEN rest ELSE thr[t].cells,
               ![t].pc = IF ~last THEN "copy"
                         ELSE IF rest = <<>> THEN "done" ELSE "fill",
               ![t].out = IF last /\ rest = <<>>
                          THEN IF thr[t].op = "supersetNeighbourIndices"
                               THEN Unique(Sort(acc)) ELSE acc
                          ELSE <<>>]
    /\ UNCHANGED <<maps, tmp_cell_indices__, call>>

\* The caller is through with the result.
Finish(t) ==
    /\ thr[t].pc \in {"hold", "done"}
    /\ thr' = [thr EXCEPT ![t] = NoThread]
    /\ UNCHANGED <<maps, tmp_cell_indices__, call>>

NextConc ==
    \E t \in Threads :
        \/ BeginIndicesFromCell(t)
        \/ BeginNeighbourIndices(t)
        \/ BeginSupersetNeighbourIndices(t)
        \/ FillStep(t)
        \/ CopyStep(t)
        \/ Finish(t)

SpecConc == InitConc /\ [][NextConc]_vars

\* ------------------------------------------------------------------------
\* Properties of the sequential calls.

CallMap == maps[call.m]

StrictlyAscending(s) == \A p \in 1..(Len(s) - 1) : s[p] < s[p + 1]

Values(s) == {s[p] : p \in DOMAIN s}

InGrid(m, c) ==
    /\ c[1] \in 0..(m.repetitions[1] - 1)
    /\ c[2] \in 0..(m.repetitions[2] - 1)
    /\ c[3] \in 0..(m.repetitions[3] - 1)

\* The mapping law of the design: the flat index of basis site l of cell c.
FlatIndex(m, c, l) ==
    ((c[1] * m.repetitions[2] + c[2]) * m.repetitions[3] + c[3]) * m.n_basis + l

\* The cell of an index by division and modulo.
DirectCell(m, index) ==
    LET cellLinear == index \div m.n_basis
    IN  <<cellLinear \div (m.repetitions[2] * m.repetitions[3]),
          (cellLinear \div m.repetitions[3]) % m.repetitions[2],
          cellLinear % m.repetitions[3]>>

\* C1: for every valid index, indexToCell gives a cell of the grid, and
\* indicesFromCell of that cell gives exactly n_basis strictly increasing
\* indices with the index itself at position index mod n_basis.
C1_RoundTrip ==
    /\ call.op = "indexToCell" => InGrid(CallMap, call.out)
    /\ call.op = "indicesFromCell" =>
          \A index \in ValidIndices(CallMap) :
              IndexToCell(CallMap, index) = call.arg =>
                  /\ call.status = "ok"
                  /\ Len(call.out) = CallMap.n_basis
                  /\ StrictlyAscending(call.out)
                  /\ call.out[(index % CallMap.n_basis) + 1] = index

C1_Witness ==
    /\ call.op = "indicesFromCell"
    /\ CallMap.n_basis = 2
    /\ CallMap.repetitions = <<2, 2, 2>>
    /\ call.arg = <<1, 0, 1>>
    /\ IndexToCell(CallMap, 11) = call.arg
    /\ call.out = <<10, 11>>

\* C2: for every valid index the loops of indexToCell end with the cell
\* that division and modulo give, and that cell lies in the grid.
C2_DirectDecode ==
    call.op = "indexToCell" =>
        /\ call.status = "ok"
        /\ call.out = DirectCell(CallMap, call.arg[1])
        /\ InGrid(CallMap, call.out)

C2_Witness ==
    /\ call.op = "indexToCell"
    /\ CallMap.n_basis = 2
    /\ CallMap.repetitions = <<2, 2, 2>>
    /\ call.arg = <<13>>
    /\ call.out = <<1, 1, 0>>

\* The index at position p of the list built from the cells lo[a]..hi[a] of
\* every axis a, first axis outermost, n_basis indices per cell.
BoxEntry(m, lo, hi, p) ==
    LET r == (p - 1) \div m.n_basis
        wj == hi[2] - lo[2] + 1
        wk == hi[3] - lo[3] + 1
        c == <<lo[1] + (r \div (wj * wk)), lo[2] + ((r \div wk) % wj),
               lo[3] + (r % wk)>>
    IN  FlatIndex(m, c, (p - 1) % m.n_basis)

Max(a, b) == IF a >= b THEN a ELSE b

Min(a, b) == IF a <= b THEN a ELSE b

\* C4: on a map without a periodic axis neighbourIndices(index, s) lists,
\* first axis outermost, the cells of the cube of radius s around the cell
\* of index that lie in the grid, each with its n_basis indices in
\* ascending order; the list is strictly ascending, and it is shorter than
\* (2s+1)^3 * n_basis exactly when the cube reaches outside the grid.
C4_NonPeriodicPruned ==
    (call.op = "neighbourIndices" /\ CallMap.periodic = <<FALSE, FALSE, FALSE>>) =>
        LET m == CallMap
            s == call.arg[2]
            c == DirectCell(m, call.arg[1])
            lo == [a \in 1..3 |-> Max(0, c[a] - s)]
            hi == [a \in 1..3 |-> Min(m.repetitions[a] - 1, c[a] + s)]
            cells == (hi[1] - lo[1] + 1) * (hi[2] - lo[2] + 1) * (hi[3] - lo[3] + 1)
            full == (2 * s + 1) * (2 * s + 1) * (2 * s + 1) * m.n_basis
            outside == \E a \in 1..3 : c[a] - s < 0 \/ c[a] + s >= m.repetitions[a]
        IN  /\ call.status = "ok"
            /\ Len(call.out) = cells * m.n_basis
            /\ \A p \in 1..Len(call.out) : call.out[p] = BoxEntry(m, lo, hi, p)
            /\ StrictlyAscending(call.out)
            /\ outside <=> Len(call.out) < full

C4_Witness ==
    /\ call.op = "neighbourIndices"
    /\ CallMap.periodic = <<FALSE, FALSE, FALSE>>
    /\ CallMap.repetitions = <<2, 2, 2>>
    /\ CallMap.n_basis = 2
    /\ call.arg = <<14, 1>>
    /\ Len(call.out) = 16

\* C5: supersetNeighbourIndices(indices) is strictly ascending, and its
\* values are those of neighbourIndices(index, 1) of the indices given,
\* whatever their order and however often one is given.
C5_SupersetIsSortedUnion ==
    call.op = "supersetNeighbourIndices" =>
        /\ call.status = "ok"
        /\ StrictlyAscending(call.out)
        /\ Values(call.out) =
              UNION {Values(NeighbourIndices(CallMap, Zeros(CallMap.n_basis),
                                             call.arg[p], 1).out) :
                        p \in DOMAIN call.arg}

C5_Witness ==
    /\ call.op = "supersetNeighbourIndices"
    /\ CallMap.repetitions = <<2, 2, 2>>
    /\ CallMap.periodic = <<TRUE, FALSE, TRUE>>
    /\ Len(call.arg) = 2
    /\ call.arg[1] > call.arg[2]
    /\ Len(call.out) = TotalSites(CallMap)

\* C3: on a map with three periodic axes neighbourIndices(index, s) lists
\* all (2s+1)^3 cells of the cube, the cell at offset d of axis a with the
\* coordinate (c + d) mod R, for every s.
C3_FullWrapAnyShell ==
    (call.op = "neighbourIndices" /\ CallMap.periodic = <<TRUE, TRUE, TRUE>>) =>
        LET m == CallMap
            s == call.arg[2]
            w == 2 * s + 1
            c == DirectCell(m, call.arg[1])
            Cell(r) == <<(c[1] + (r \div (w * w)) - s) % m.repetitions[1],
                         (c[2] + ((r \div w) % w) - s) % m.repetitions[2],
                         (c[3] + (r % w) - s) % m.repetitions[3]>>
        IN  /\ Len(call.out) = w * w * w * m.n_basis
            /\ \A p \in 1..Len(call.out) :
                  call.out[p] = FlatIndex(m, Cell((p - 1) \div m.n_basis),
                                          (p - 1) % m.n_basis)

\* C7: indexToCell of an index outside [0, totalSites) and indicesFromCell
\* of a cell outside the grid fail with IndexOutOfRange and give no result.
C7_OutOfRangeRejected ==
    /\ (call.op = "indexToCell" /\ call.arg[1] \notin ValidIndices(CallMap)) =>
          (call.status = "IndexOutOfRange" /\ call.out = <<>>)
    /\ (call.op = "indicesFromCell" /\ ~InGrid(CallMap, call.arg)) =>
          (call.status = "IndexOutOfRange" /\ call.out = <<>>)

\* C8: neighbourIndices with a negative shell radius fails with
\* InvalidArgument and gives no neighbour list.
C8_NegativeShellsRejected ==
    (call.op = "neighbourIndices" /\ call.arg[2] < 0) =>
        (call.status = "InvalidArgument" /\ call.out = <<>>)

\* ------------------------------------------------------------------------
\* Properties of construction.

\* C9: a construction from a basis count <= 0, a repetition <= 0, or
\* repetitions or periodic of another length than 3 fails with
\* InvalidConfiguration and yields no map; any other yields a map.
C9_InvalidConfigurationRejected ==
    /\ \A q \in 1..Len(maps) :
          ValidConfig(maps[q].n_basis, maps[q].repetitions, maps[q].periodic)
    /\ call.op = "construct" =>
          IF ValidConfig(call.arg[1], SubSeq(call.arg, 2, Len(call.arg)), call.flags)
          THEN call.status = "ok" /\ call.m = Len(maps)
          ELSE call.status = "InvalidConfiguration" /\ call.m = 0

\* C10: whatever valid maps have been constructed, the scratch vector has
\* at least n_basis elements for each of them, and a query stays inside it
\* and returns n_basis indices for every cell: indicesFromCell those of its
\* cell, neighbourIndices those of the cells it visits.
C10_ScratchFitsEveryMap ==
    (\A q \in 1..Len(maps) :
        ValidConfig(maps[q].n_basis, maps[q].repetitions, maps[q].periodic)) =>
        /\ \A q \in 1..Len(maps) : Len(tmp_cell_indices__) >= maps[q].n_basis
        /\ call.op = "indicesFromCell" =>
              /\ call.status = "ok"
              /\ call.out = [l \in 1..CallMap.n_basis |->
                                FlatIndex(CallMap, call.arg, l - 1)]
        /\ call.op = "neighbourIndices" =>
              /\ call.status = "ok"
              /\ Len(call.out) =
                    CallMap.n_basis
                        * Len(VisitedCells(CallMap, call.arg[1], call.arg[2]))

\* ------------------------------------------------------------------------
\* Properties of concurrent calls.

\* What a call returns when no other call runs.
Alone(m, op, arg) ==
    IF op = "indicesFromCell"
    THEN IndicesFromCell(m, Zeros(m.n_basis), arg[1], arg[2], arg[3])
    ELSE IF op = "neighbourIndices"
    THEN NeighbourIndices(m, Zeros(m.n_basis), arg[1], arg[2]).out
    ELSE SupersetNeighbourIndices(m, Zeros(m.n_basis), arg).out

\* C6: under every interleaving a call returns what it returns when run
\* alone, and what indicesFromCell returned stays what it was while its
\* caller holds it.
C6_CallsAreIndependent ==
    \A t \in Threads :
        /\ thr[t].pc = "done" =>
              thr[t].out = Alone(maps[1], thr[t].op, thr[t].arg)
        /\ thr[t].pc = "hold" =>
              tmp_cell_indices__ = Alone(maps[1], thr[t].op, thr[t].arg)

====
